---- MODULE Spec2Model ----
(***************************************************************************)
(* Dashboard Client of the clinical-audit BI dashboard: the per-page       *)
(* controllers (Audit Trail, Unsigned Notes, Service Usage, Weekly         *)
(* Summary, Adoption Analytics, Query Analytics), the Dashboard overview,  *)
(* the login form, the auth store and the axios client with its two        *)
(* interceptors.  One route is mounted at a time; the state of a page      *)
(* component lives from mount to unmount.  The Query Gateway is the        *)
(* environment: it answers every call with rows or with a rejection.       *)
(*                                                                         *)
(* Conventions: a nullable value is a sequence, <<>> for null and <<v>>    *)
(* for v; a nullable string is "" for null (every reader of those strings  *)
(* in the source tests them for truthiness only).                          *)
(***************************************************************************)
EXTENDS Integers, Sequences, FiniteSets, TLC

(***************************************************************************)
(* Bounds of the model.                                                    *)
(***************************************************************************)
\* searches followed per mount of a page
MaxGen == 2
\* calls in flight whose continuation no longer reaches a mounted page
MaxDead == 2
\* rows in a Result Envelope
MaxRows == 2
\* the counts the utilities are applied to run to MaxCount, and from
\* 10000 - MaxCount to 10000 + MaxCount
MaxCount == 5
\* the length of a list a utility is applied to
MaxLen == 3
\* the number of characters of an exported field
MaxField == 2
\* the number of operations applied to the auth store by itself
MaxOps == 3
\* the number of rows of the data of a DataTable
MaxData == 30

(***************************************************************************)
(* Routes.                                                                 *)
(***************************************************************************)
LOGIN == "/login"
DASHBOARD == "/dashboard"
AUDIT == "/audit-trail"
UNSIGNED == "/unsigned-notes"
SERVICE == "/service-usage"
WEEKLY == "/weekly-summary"
ADOPTION == "/adoption-analytics"
ANALYTICS == "/analytics"

DatePages == {AUDIT, UNSIGNED, SERVICE, WEEKLY, ADOPTION}
FilterPages == DatePages \cup {ANALYTICS}
MenuRoutes == {DASHBOARD} \cup FilterPages

(***************************************************************************)
(* Values.                                                                 *)
(***************************************************************************)
Null == <<>>
Some(v) == <<v>>

NoTok == ""
Tokens == {"T1", "T2"}
NoUser == ""
Users == {"admin"}

\* a Date | null held by a DatePicker: null, the default of the page, a date
\* the user picked, or a Date object that is no calendar date (Invalid Date)
NoDate == "null"
DefaultDate == "default"
PickedDate == "picked"
InvalidDate == "invalid"
DateValues == {NoDate, DefaultDate, PickedDate, InvalidDate}

TextValues == {"", "t1"}
DefaultQuery == "SELECT * FROM "
QueryTexts == {DefaultQuery, " ", "SELECT 1"}

\* error texts of the client
MsgDates == "Please select both start date and end date"
MsgQuery == "Please enter a query"
MsgInvalidTime == "Invalid time value"
MsgCredentials == "Please enter both username and password"
MsgInvalidLogin == "Invalid username or password"

\* rejections of a call as the response interceptor receives them: an HTTP
\* status (0: no response, a transport error) and the detail of the body
NoDetail == ""
Rejections ==
  { [status |-> 401, detail |-> "Could not validate credentials"],
    [status |-> 500, detail |-> "Query failed"],
    [status |-> 0, detail |-> NoDetail] }

VARIABLES
  path,           \* window.location.pathname, the mounted route
  reloadPending,  \* window.location.href was assigned; the document unloads next
  ls,             \* localStorage['access_token']
  store,          \* useAuthStore: user, token, isAuthenticated
  form,           \* LoginForm with its useAuth hook, while /login is mounted
  pg,             \* the mounted filter page's component state
  dash,           \* DashboardPage's component state
  calls,          \* calls in flight awaited by the mounted component
  got,            \* per search, the fulfilled values Promise.all holds so far
  dead,           \* calls in flight whose continuation reaches no mounted page
  session,        \* history: token of the last successful login not yet ended
  ev,             \* history: the operation that produced this state
  util            \* an evaluation of a function of the utilities, the export
                  \* or the API module: its arguments and, once applied, its
                  \* result

vars ==
  <<path, reloadPending, ls, store, form, pg, dash, calls, got, dead, session,
    ev, util>>

\* no function under evaluation
NoUtil == [fn |-> "none"]

Gens == 1..MaxGen

\* the value of `ev`: the operation, and the rejection it handled if any
NoRej == [status |-> 200, detail |-> NoDetail]
Ev(op) == [op |-> op, rej |-> NoRej]
EvRej(op, rej) == [op |-> op, rej |-> rej]
RejectOps == {"reject", "dashReject", "loginFail", "deadReject"}

(***************************************************************************)
(* apiClient: the two interceptors.                                        *)
(***************************************************************************)
\* request interceptor: Authorization is `Bearer ${token}` when localStorage
\* holds a token, and absent otherwise
RequestHeader(token) ==
  IF token # NoTok THEN Some(<<"Bearer", token>>) ELSE Null

\* variant: an interceptor that leaves the stored token in place
InterceptedStorageKept(rej, token) == token

\* response interceptor, on a rejection: localStorage after it
InterceptedStorage(rej, token) ==
  IF rej.status = 401 THEN NoTok ELSE token

\* response interceptor, on a rejection: whether window.location.href is set
InterceptedRedirect(rej, pathname) ==
  rej.status = 401 /\ pathname # LOGIN

\* response interceptor: the message of the Error it rejects with
AxiosMessage(status) ==
  IF status = 0 THEN "Network Error" ELSE "Request failed"
ErrorMessage(rej) ==
  IF rej.detail # NoDetail THEN rej.detail ELSE AxiosMessage(rej.status)

Call(p, g, q, token) ==
  [page |-> p, gen |-> g, qt |-> q, auth |-> RequestHeader(token)]

Payload(c, rows) == [qt |-> c.qt, gen |-> c.gen, rows |-> rows]

(***************************************************************************)
(* useAuthStore.                                                           *)
(***************************************************************************)
\* variant: a store that starts unauthenticated whatever local storage holds
InitStoreUnauthenticated(token) ==
  [user |-> NoUser, token |-> token, isAuthenticated |-> FALSE]

\* the store as created: token and flag read from localStorage
InitStore(token) ==
  [user |-> NoUser, token |-> token, isAuthenticated |-> token # NoTok]

setUser(s, user) ==
  [s EXCEPT !.user = user, !.isAuthenticated = (user # NoUser)]

setToken(s, token) ==
  [s EXCEPT !.token = token, !.isAuthenticated = (token # NoTok)]

\* variant: a setToken that keeps the token in the store only
setTokenStorageSkipped(token) == NoTok

\* what setToken leaves in localStorage (setItem, or removeItem for no token)
setTokenStorage(token) ==
  IF token # NoTok THEN token ELSE NoTok

\* variant: a logout that leaves the authenticated flag set
logoutStoreKeepsFlag ==
  [user |-> NoUser, token |-> NoTok, isAuthenticated |-> TRUE]

\* useAuthStore.logout: what it sets in the store
logoutStore ==
  [user |-> NoUser, token |-> NoTok, isAuthenticated |-> FALSE]

(***************************************************************************)
(* Component state at mount.                                               *)
(***************************************************************************)
NoView == "null"
Views(p) ==
  CASE p = SERVICE -> {"tenant", "practitioner", "patient"}
    [] p = ADOPTION -> {"growth", "dau", "mau"}
    [] OTHER -> {}
DefaultView(p) ==
  CASE p = SERVICE -> "tenant"
    [] p = ADOPTION -> "growth"
    [] OTHER -> NoView

\* pages with a Limit field, and its default; 0 stands for no limit (the
\* Query Analytics page holds undefined, which it reads like 0)
LimitPages == {AUDIT, UNSIGNED, SERVICE, ANALYTICS}
DefaultLimit(p) ==
  CASE p \in {AUDIT, UNSIGNED, ANALYTICS} -> 1000
    [] p = SERVICE -> 100
    [] OTHER -> 0

InitPage(p) ==
  [ loading |-> FALSE, error |-> "", results |-> Null, derived |-> Null,
    countData |-> Null, practitionerData |-> Null,
    viewMode |-> DefaultView(p),
    tenantId |-> "", userId |-> "",
    startDate |-> IF p \in DatePages THEN DefaultDate ELSE NoDate,
    endDate |-> IF p \in DatePages THEN DefaultDate ELSE NoDate,
    limit |-> DefaultLimit(p),
    query |-> IF p = ANALYTICS THEN DefaultQuery ELSE "",
    database |-> "",
    gen |-> 0 ]

\* DashboardPage; pc is the position of loadDashboardData
DashOff ==
  [loading |-> FALSE, error |-> "", metrics |-> Null, sessionsByStatus |-> 0,
   topTenants |-> 0, pc |-> "off"]
DashMounted ==
  [loading |-> TRUE, error |-> "", metrics |-> Null, sessionsByStatus |-> 0,
   topTenants |-> 0, pc |-> "total_sessions"]

InitForm ==
  [username |-> "", password |-> "", loading |-> FALSE, error |-> "",
   localError |-> ""]

EmptyGot == [g \in Gens |-> {}]

\* LoginPage's effect: an authenticated client on /login is sent to /dashboard
\* variant: a login page that redirects whatever the flag
LoginPageRedirectAlways(p, isAuthenticated) ==
  IF p = LOGIN THEN DASHBOARD ELSE p

\* LoginPage: an authenticated visitor of /login is sent to /dashboard
LoginPageRedirect(p, isAuthenticated) ==
  IF p = LOGIN /\ isAuthenticated THEN DASHBOARD ELSE p

\* The router renders route r: the previous component unmounts (the calls it
\* awaits stay in flight, `orphans` of them), the new one mounts with fresh
\* state, and DashboardPage's mount effect starts loadDashboardData.
Mount(r, token, orphans) ==
  /\ dead + orphans <= MaxDead
  /\ path' = r
  /\ pg' = InitPage(r)
  /\ form' = InitForm
  /\ got' = EmptyGot
  /\ dash' = IF r = DASHBOARD THEN DashMounted ELSE DashOff
  /\ calls' = IF r = DASHBOARD
                THEN {Call(DASHBOARD, 1, "total_sessions", token)}
                ELSE {}
  /\ dead' = dead + orphans

Init ==
  /\ path = LOGIN
  /\ reloadPending = FALSE
  /\ ls = NoTok
  /\ store = InitStore(NoTok)
  /\ form = InitForm
  /\ pg = InitPage(LOGIN)
  /\ dash = DashOff
  /\ calls = {}
  /\ got = EmptyGot
  /\ dead = 0
  /\ session = NoTok
  /\ ev = Ev("init")
  /\ util = NoUtil

\* the document is interactive until a pending redirect unloads it; the model
\* lets only responses arrive between the redirect and the unload
UserCanAct == ~reloadPending

(***************************************************************************)
(* Filter pages: Search / Analyze / Execute.                               *)
(***************************************************************************)
\* String.prototype.trim on the texts of the model
Trim(t) ==
  CASE t = " " -> ""
    [] t = DefaultQuery -> "SELECT * FROM"
    [] OTHER -> t

\* the query type a page asks for, by the view mode its handler closed over
QueryType(p, view) ==
  CASE p = AUDIT -> "audit_trail"
    [] p = WEEKLY -> "weekly_summary"
    [] p = SERVICE ->
         (CASE view = "practitioner" -> "service_usage_practitioner"
            [] view = "patient" -> "service_usage_patient"
            [] OTHER -> "service_usage_tenant")
    [] p = ADOPTION ->
         (CASE view = "dau" -> "daily_active_users"
            [] view = "mau" -> "monthly_active_users"
            [] OTHER -> "growth_metrics")
    [] OTHER -> "analytics_query"

UnsignedQueries ==
  {"unsigned_notes", "unsigned_notes_count", "unsigned_notes_by_practitioner"}

SearchQueries(p, view) ==
  IF p = UNSIGNED THEN UnsignedQueries ELSE {QueryType(p, view)}

\* pages whose handler calls toISOString inside its try block; the others
\* build their params before the try
FormatsInTry == {AUDIT, WEEKLY}

\* variant: a search that starts without clearing the error
StartedKeepsError(s) ==
  [s EXCEPT !.loading = TRUE, !.results = Null,
            !.derived = Null, !.countData = Null, !.practitionerData = Null,
            !.gen = s.gen + 1]

\* setLoading(true), setError(null) and the resets that open a search
\* (a page that has no such field keeps it null)
Started(s) ==
  [s EXCEPT !.loading = TRUE, !.error = "", !.results = Null,
            !.derived = Null, !.countData = Null, !.practitionerData = Null,
            !.gen = s.gen + 1]

\* variant: a handleSearch that validates the start date only
handleSearchStartOnly(p, s) ==
  IF s.startDate = NoDate
    THEN [pg |-> [s EXCEPT !.error = MsgDates], issue |-> {}]
    ELSE [pg |-> Started(s), issue |-> SearchQueries(p, s.viewMode)]

\* handleSearch of the five date pages, up to its first await: the state it
\* leaves and the queries it issues.  Date.toISOString throws a RangeError on
\* an Invalid Date: inside the try it is caught (error set, loading cleared
\* by finally), before the try it leaves the handler.
handleSearch(p, s) ==
  IF s.startDate = NoDate \/ s.endDate = NoDate
    THEN [pg |-> [s EXCEPT !.error = MsgDates], issue |-> {}]
    ELSE IF InvalidDate \in {s.startDate, s.endDate}
      THEN IF p \in FormatsInTry
             THEN [pg |-> [Started(s) EXCEPT !.error = MsgInvalidTime,
                                             !.loading = FALSE],
                   issue |-> {}]
             ELSE [pg |-> Started(s), issue |-> {}]
      ELSE [pg |-> Started(s), issue |-> SearchQueries(p, s.viewMode)]

\* AnalyticsPage.handleExecute, up to its await
handleExecute(s) ==
  IF Trim(s.query) = ""
    THEN [pg |-> [s EXCEPT !.error = MsgQuery], issue |-> {}]
    ELSE [pg |-> Started(s), issue |-> {"analytics_query"}]

\* variant: a button that stays enabled while the page is loading
SearchDisabledNotLoading(p, s) ==
  IF p = ANALYTICS
    THEN Trim(s.query) = ""
    ELSE s.startDate = NoDate \/ s.endDate = NoDate

\* the `disabled` prop of the Search / Analyze / Execute button
SearchDisabled(p, s) ==
  IF p = ANALYTICS
    THEN s.loading \/ Trim(s.query) = ""
    ELSE s.loading \/ s.startDate = NoDate \/ s.endDate = NoDate

\* the `disabled` prop of the Clear button
ClearDisabled(s) == s.loading

RunHandler(label) ==
  LET out == IF path = ANALYTICS THEN handleExecute(pg)
                                 ELSE handleSearch(path, pg)
  IN /\ pg' = out.pg
     /\ calls' = calls \cup {Call(path, out.pg.gen, q, ls) : q \in out.issue}
     /\ ev' = Ev(label)
     /\ UNCHANGED <<util, path, reloadPending, ls, store, form, dash, got, dead, session>>

\* a click on the enabled button
ClickSearch ==
  /\ path \in FilterPages
  /\ UserCanAct
  /\ ~SearchDisabled(path, pg)
  /\ pg.gen < MaxGen
  /\ RunHandler("search")

\* the handler called while its button is disabled (not reachable through
\* the rendered button; part of HandlerSpec only)
InvokeSearch ==
  /\ path \in FilterPages
  /\ UserCanAct
  /\ SearchDisabled(path, pg)
  /\ pg.gen < MaxGen
  /\ RunHandler("invoke")

(***************************************************************************)
(* Filter pages: the continuation of a search.                             *)
(***************************************************************************)
\* the other calls in flight of the same Promise.all
Siblings(c) == {d \in calls \ {c} : d.page = c.page /\ d.gen = c.gen}

\* the statements after the await, and finally, with every value fulfilled
OnFulfilled(p, s, all) ==
  LET r(q) == CHOOSE x \in all : x.qt = q
      one == CHOOSE x \in all : TRUE
  IN CASE p = UNSIGNED ->
            [s EXCEPT !.results = Some(r("unsigned_notes")),
                      !.countData =
                         IF r("unsigned_notes_count").rows > 0
                           THEN Some(r("unsigned_notes_count"))
                           ELSE s.countData,
                      !.practitionerData =
                         Some(r("unsigned_notes_by_practitioner")),
                      !.loading = FALSE]
       [] p = SERVICE ->
            [s EXCEPT !.results = Some(one),
                      !.derived =
                         IF one.rows > 0 /\ one.qt = "service_usage_tenant"
                           THEN Some(one) ELSE s.derived,
                      !.loading = FALSE]
       [] p = WEEKLY ->
            [s EXCEPT !.results = Some(one),
                      !.derived = IF one.rows >= 1 THEN Some(one) ELSE s.derived,
                      !.loading = FALSE]
       [] p = ADOPTION ->
            [s EXCEPT !.results = Some(one),
                      !.derived =
                         IF one.qt = "growth_metrics" /\ one.rows >= 2
                           THEN Some(one) ELSE s.derived,
                      !.loading = FALSE]
       [] OTHER ->
            [s EXCEPT !.results = Some(one), !.loading = FALSE]

\* variant: a catch without the finally
OnRejectedNoFinally(s, rej) == [s EXCEPT !.error = ErrorMessage(rej)]

\* catch and finally
OnRejected(s, rej) ==
  [s EXCEPT !.error = ErrorMessage(rej), !.loading = FALSE]

\* variant: a continuation that stores each value as it arrives, without the
\* join
FulfilEach(c, rows) ==
  /\ c.page = path
  /\ path \in FilterPages
  /\ pg' = [pg EXCEPT !.results = Some(Payload(c, rows)),
                      !.loading = (Siblings(c) # {})]
  /\ got' = got
  /\ calls' = calls \ {c}
  /\ ev' = Ev("fulfil")
  /\ UNCHANGED <<util, path, reloadPending, ls, store, form, dash, dead, session>>

\* the gateway answers call c of the mounted filter page with rows
Fulfil(c, rows) ==
  /\ c.page = path
  /\ path \in FilterPages
  /\ IF Siblings(c) # {}
       THEN /\ got' = [got EXCEPT ![c.gen] = @ \cup {Payload(c, rows)}]
            /\ pg' = pg
       ELSE /\ got' = [got EXCEPT ![c.gen] = {}]
            /\ pg' = OnFulfilled(path, pg, got[c.gen] \cup {Payload(c, rows)})
  /\ calls' = calls \ {c}
  /\ ev' = Ev("fulfil")
  /\ UNCHANGED <<util, path, reloadPending, ls, store, form, dash, dead, session>>

\* the gateway (or the transport) rejects call c of the mounted filter page
Reject(c, rej) ==
  /\ c.page = path
  /\ path \in FilterPages
  /\ dead + Cardinality(Siblings(c)) <= MaxDead
  /\ pg' = OnRejected(pg, rej)
  /\ calls' = calls \ ({c} \cup Siblings(c))
  /\ dead' = dead + Cardinality(Siblings(c))
  /\ got' = [got EXCEPT ![c.gen] = {}]
  /\ ls' = InterceptedStorage(rej, ls)
  /\ reloadPending' = (reloadPending \/ InterceptedRedirect(rej, path))
  /\ session' = IF rej.status = 401 THEN NoTok ELSE session
  /\ ev' = EvRej("reject", rej)
  /\ UNCHANGED <<util, path, store, form, dash>>

(***************************************************************************)
(* Filter pages: Clear, the view toggle and the filter inputs.             *)
(***************************************************************************)
\* variant: a handleClear that forgets the derived metric
handleClearKeepsDerived(p, s) ==
  [s EXCEPT !.tenantId = "", !.userId = "",
            !.startDate = InitPage(p).startDate,
            !.endDate = InitPage(p).endDate,
            !.limit = DefaultLimit(p),
            !.query = InitPage(p).query, !.database = "",
            !.error = "", !.results = Null,
            !.countData = Null, !.practitionerData = Null]

\* handleClear of each filter page
handleClear(p, s) ==
  [s EXCEPT !.tenantId = "", !.userId = "",
            !.startDate = InitPage(p).startDate,
            !.endDate = InitPage(p).endDate,
            !.limit = DefaultLimit(p),
            !.query = InitPage(p).query, !.database = "",
            !.error = "", !.results = Null, !.derived = Null,
            !.countData = Null, !.practitionerData = Null]

ClickClear ==
  /\ path \in FilterPages
  /\ UserCanAct
  /\ ~ClearDisabled(pg)
  /\ pg' = handleClear(path, pg)
  /\ ev' = Ev("clear")
  /\ UNCHANGED <<util, path, reloadPending, ls, store, form, dash, calls, got, dead, session>>

handleViewChange(s, newView) ==
  IF newView # NoView
    THEN [s EXCEPT !.viewMode = newView, !.results = Null, !.derived = Null]
    ELSE s

\* an exclusive ToggleButtonGroup passes null for a click on the selected button
ClickView(v) ==
  /\ path \in {SERVICE, ADOPTION}
  /\ UserCanAct
  /\ v \in (Views(path) \ {pg.viewMode}) \cup {NoView}
  /\ pg' = handleViewChange(pg, v)
  /\ ev' = Ev("view")
  /\ UNCHANGED <<util, path, reloadPending, ls, store, form, dash, calls, got, dead, session>>

\* texts typed into a Limit field, and parseInt of them (Null for NaN)
LimitTexts == {"", "0", "5", "-5"}
parseInt(t) ==
  CASE t = "0" -> Some(0)
    [] t = "5" -> Some(5)
    [] t = "-5" -> Some(-5)
    [] OTHER -> Null

\* the onChange of the Limit field: `parseInt(v) || default` on the BI pages,
\* `v ? parseInt(v) : undefined` on the Query Analytics page
LimitOnChange(p, t) ==
  IF p = ANALYTICS
    THEN IF t # "" /\ parseInt(t) # Null THEN parseInt(t)[1] ELSE 0
    ELSE IF parseInt(t) # Null /\ parseInt(t)[1] # 0
           THEN parseInt(t)[1] ELSE DefaultLimit(p)

SetFilter(s) ==
  /\ path \in FilterPages
  /\ UserCanAct
  /\ s # pg
  /\ pg' = s
  /\ ev' = Ev("input")
  /\ UNCHANGED <<util, path, reloadPending, ls, store, form, dash, calls, got, dead, session>>

SetStartDate(d) == path \in DatePages /\ SetFilter([pg EXCEPT !.startDate = d])
SetEndDate(d) == path \in DatePages /\ SetFilter([pg EXCEPT !.endDate = d])
SetTenantId(t) == path \in DatePages /\ SetFilter([pg EXCEPT !.tenantId = t])
SetUserId(t) == path = AUDIT /\ SetFilter([pg EXCEPT !.userId = t])
SetLimit(t) ==
  path \in LimitPages /\ SetFilter([pg EXCEPT !.limit = LimitOnChange(path, t)])
SetQuery(t) == path = ANALYTICS /\ SetFilter([pg EXCEPT !.query = t])
SetDatabase(t) == path = ANALYTICS /\ SetFilter([pg EXCEPT !.database = t])

(***************************************************************************)
(* Calls whose continuation reaches no mounted component: only the         *)
(* response interceptor sees their answer.                                 *)
(***************************************************************************)
DeadFulfil ==
  /\ dead > 0
  /\ dead' = dead - 1
  /\ ev' = Ev("deadFulfil")
  /\ UNCHANGED <<util, path, reloadPending, ls, store, form, pg, dash, calls, got, session>>

DeadReject(rej) ==
  /\ dead > 0
  /\ dead' = dead - 1
  /\ ls' = InterceptedStorage(rej, ls)
  /\ reloadPending' = (reloadPending \/ InterceptedRedirect(rej, path))
  /\ session' = IF rej.status = 401 THEN NoTok ELSE session
  /\ ev' = EvRej("deadReject", rej)
  /\ UNCHANGED <<util, path, store, form, pg, dash, calls, got>>

(***************************************************************************)
(* DashboardPage.loadDashboardData: three queries, one after the other.    *)
(***************************************************************************)
DashQueries == <<"total_sessions", "sessions_by_status", "service_usage_tenant">>

\* the statements between one await and the next (or finally), for the
\* answer to the query the function waits at
loadDashboardData(d, c, rows) ==
  CASE d.pc = "total_sessions" ->
         [d EXCEPT !.metrics = IF rows > 0 THEN Some(Payload(c, rows)) ELSE d.metrics,
                   !.pc = "sessions_by_status"]
    [] d.pc = "sessions_by_status" ->
         [d EXCEPT !.sessionsByStatus = rows, !.pc = "service_usage_tenant"]
    [] OTHER ->
         [d EXCEPT !.topTenants = rows, !.pc = "done", !.loading = FALSE]

\* catch and finally of loadDashboardData
loadDashboardDataFailed(d, rej) ==
  [d EXCEPT !.error = ErrorMessage(rej), !.loading = FALSE, !.pc = "failed"]

DashFulfil(c, rows) ==
  /\ c.page = DASHBOARD
  /\ path = DASHBOARD
  /\ dash' = loadDashboardData(dash, c, rows)
  /\ calls' = IF dash'.pc = "done"
                THEN calls \ {c}
                ELSE (calls \ {c}) \cup {Call(DASHBOARD, 1, dash'.pc, ls)}
  /\ ev' = Ev("dashFulfil")
  /\ UNCHANGED <<util, path, reloadPending, ls, store, form, pg, got, dead, session>>

DashReject(c, rej) ==
  /\ c.page = DASHBOARD
  /\ path = DASHBOARD
  /\ dash' = loadDashboardDataFailed(dash, rej)
  /\ calls' = calls \ {c}
  /\ ls' = InterceptedStorage(rej, ls)
  /\ reloadPending' = (reloadPending \/ InterceptedRedirect(rej, path))
  /\ session' = IF rej.status = 401 THEN NoTok ELSE session
  /\ ev' = EvRej("dashReject", rej)
  /\ UNCHANGED <<util, path, store, form, pg, got, dead>>

(***************************************************************************)
(* Navigation, login, logout, reload.                                      *)
(***************************************************************************)
\* a menu item of the sidebar or a quick action of the dashboard.  Every
\* route but /login is wrapped in ProtectedRoute; the model follows the
\* navigation of an authenticated client, for which the route renders its page.
Navigate(r) ==
  /\ UserCanAct
  /\ store.isAuthenticated
  /\ r \in MenuRoutes \ {path}
  /\ Mount(r, ls, Cardinality(calls))
  /\ ev' = Ev("navigate")
  /\ UNCHANGED <<util, reloadPending, ls, store, session>>

\* the text of the alert of the login form
LoginAlert(f) == IF f.localError # "" THEN f.localError ELSE f.error

Credentials == {"", "x"}

\* the inputs of the login form are disabled while the login is pending
SetUsername(t) ==
  /\ path = LOGIN /\ UserCanAct /\ ~form.loading /\ t # form.username
  /\ form' = [form EXCEPT !.username = t]
  /\ ev' = Ev("input")
  /\ UNCHANGED <<util, path, reloadPending, ls, store, pg, dash, calls, got, dead, session>>

SetPassword(t) ==
  /\ path = LOGIN /\ UserCanAct /\ ~form.loading /\ t # form.password
  /\ form' = [form EXCEPT !.password = t]
  /\ ev' = Ev("input")
  /\ UNCHANGED <<util, path, reloadPending, ls, store, pg, dash, calls, got, dead, session>>

\* LoginForm.handleSubmit with useAuth.login, up to the await: the form
\* state it leaves and whether the login call is issued
handleSubmit(f) ==
  IF f.username = "" \/ f.password = ""
    THEN [form |-> [f EXCEPT !.localError = MsgCredentials], issue |-> FALSE]
    ELSE [form |-> [f EXCEPT !.localError = "", !.loading = TRUE, !.error = ""],
          issue |-> TRUE]

\* the submit button is disabled while loading; both inputs are `required`,
\* so the browser does not submit the form while one of them is empty
Submit ==
  /\ path = LOGIN /\ UserCanAct
  /\ ~form.loading
  /\ form.username # "" /\ form.password # ""
  /\ form' = handleSubmit(form).form
  /\ calls' = IF handleSubmit(form).issue
                THEN calls \cup {Call(LOGIN, 0, "login", ls)} ELSE calls
  /\ ev' = Ev("submit")
  /\ UNCHANGED <<util, path, reloadPending, ls, store, pg, dash, got, dead, session>>

\* the store after the try block of useAuth.login: setToken, then setUser
loginStore(s, token, user) == setUser(setToken(s, token), user)

\* POST /auth/login answered with a token and a user: setToken, setUser,
\* navigate('/dashboard')
LoginFulfil(c, token, user) ==
  /\ c.page = LOGIN
  /\ store' = loginStore(store, token, user)
  /\ ls' = setTokenStorage(token)
  /\ session' = token
  /\ Mount(DASHBOARD, ls', Cardinality(calls \ {c}))
  /\ ev' = Ev("loginOk")
  /\ UNCHANGED <<util, reloadPending>>

\* variant: a login whose rejection is not passed on to the form
loginFailedSwallowed(f, rej) ==
  [f EXCEPT !.error = ErrorMessage(rej), !.loading = FALSE]

\* catch and finally of useAuth.login, then the catch of handleSubmit
loginFailed(f, rej) ==
  [f EXCEPT !.error = ErrorMessage(rej), !.loading = FALSE,
            !.localError = MsgInvalidLogin]

LoginReject(c, rej) ==
  /\ c.page = LOGIN
  /\ form' = loginFailed(form, rej)
  /\ calls' = calls \ {c}
  /\ ls' = InterceptedStorage(rej, ls)
  /\ reloadPending' = (reloadPending \/ InterceptedRedirect(rej, path))
  /\ session' = IF rej.status = 401 THEN NoTok ELSE session
  /\ ev' = EvRej("loginFail", rej)
  /\ UNCHANGED <<util, path, store, pg, dash, got, dead>>

\* Header.handleLogout -> useAuth.logout: the store's logout, then
\* navigate('/login').  The header shows Logout while the store has a user.
Logout ==
  /\ UserCanAct
  /\ store.user # NoUser
  /\ store' = logoutStore
  /\ ls' = NoTok
  /\ session' = NoTok
  /\ Mount(LoginPageRedirect(LOGIN, store'.isAuthenticated), ls', Cardinality(calls))
  /\ ev' = Ev("logout")
  /\ UNCHANGED <<util, reloadPending>>

\* the redirect of the response interceptor takes effect: the document is
\* unloaded (its calls are aborted), the app starts again at /login with a
\* store built from localStorage, and LoginPage's effect runs
Reload ==
  /\ reloadPending
  /\ reloadPending' = FALSE
  /\ store' = InitStore(ls)
  /\ path' = LoginPageRedirect(LOGIN, store'.isAuthenticated)
  /\ pg' = InitPage(path')
  /\ form' = InitForm
  /\ got' = EmptyGot
  /\ dash' = IF path' = DASHBOARD THEN DashMounted ELSE DashOff
  /\ calls' = IF path' = DASHBOARD
                THEN {Call(DASHBOARD, 1, "total_sessions", ls)} ELSE {}
  /\ dead' = 0
  /\ ev' = Ev("reload")
  /\ UNCHANGED <<util, ls, session>>

\* the user reloads the document: its calls are aborted and the app starts
\* again at the same route with a store built from localStorage.  A protected
\* route without a stored token is the business of ProtectedRoute; no
\* interactive state of the model is in that case.
UserReload ==
  /\ UserCanAct
  /\ ls # NoTok \/ path = LOGIN
  /\ reloadPending' = FALSE
  /\ store' = InitStore(ls)
  /\ path' = LoginPageRedirect(path, store'.isAuthenticated)
  /\ pg' = InitPage(path')
  /\ form' = InitForm
  /\ got' = EmptyGot
  /\ dash' = IF path' = DASHBOARD THEN DashMounted ELSE DashOff
  /\ calls' = IF path' = DASHBOARD
                THEN {Call(DASHBOARD, 1, "total_sessions", ls)} ELSE {}
  /\ dead' = 0
  /\ ev' = Ev("userReload")
  /\ UNCHANGED <<util, ls, session>>

(***************************************************************************)
(* The specifications.                                                     *)
(***************************************************************************)
\* every step of the app; of the filter inputs, those the handlers branch on
\* and the tenant filter
Next ==
  \/ ClickSearch
  \/ ClickClear
  \/ \E v \in {"tenant", "practitioner", "patient", "growth", "dau", "mau", NoView} :
       ClickView(v)
  \/ \E d \in DateValues : SetStartDate(d)
  \/ \E d \in DateValues : SetEndDate(d)
  \/ \E t \in TextValues : SetTenantId(t)
  \/ \E t \in QueryTexts : SetQuery(t)
  \/ \E c \in calls, rows \in 0..MaxRows : Fulfil(c, rows)
  \/ \E c \in calls, rej \in Rejections : Reject(c, rej)
  \/ \E c \in calls, rows \in 0..MaxRows : DashFulfil(c, rows)
  \/ \E c \in calls, rej \in Rejections : DashReject(c, rej)
  \/ DeadFulfil
  \/ \E rej \in Rejections : DeadReject(rej)
  \/ \E r \in MenuRoutes : Navigate(r)
  \/ \E t \in Credentials : SetUsername(t)
  \/ \E t \in Credentials : SetPassword(t)
  \/ Submit
  \/ \E c \in calls, t \in Tokens, u \in Users : LoginFulfil(c, t, u)
  \/ \E c \in calls, rej \in Rejections : LoginReject(c, rej)
  \/ Logout
  \/ Reload

Spec == Init /\ [][Next]_vars

\* One filter page, freshly mounted in the session of a logged-in user, with
\* every filter input of the page.
PageInit ==
  /\ path \in FilterPages
  /\ reloadPending = FALSE
  /\ ls = "T1"
  /\ store = loginStore(InitStore(NoTok), "T1", "admin")
  /\ form = InitForm
  /\ pg = InitPage(path)
  /\ dash = DashOff
  /\ calls = {}
  /\ got = EmptyGot
  /\ dead = 0
  /\ session = "T1"
  /\ ev = Ev("navigate")
  /\ util = NoUtil

PageNext ==
  \/ ClickSearch
  \/ ClickClear
  \/ \E v \in {"tenant", "practitioner", "patient", "growth", "dau", "mau", NoView} :
       ClickView(v)
  \/ \E d \in DateValues : SetStartDate(d)
  \/ \E d \in DateValues : SetEndDate(d)
  \/ \E t \in TextValues : SetTenantId(t)
  \/ \E t \in TextValues : SetUserId(t)
  \/ \E t \in LimitTexts : SetLimit(t)
  \/ \E t \in QueryTexts : SetQuery(t)
  \/ \E t \in TextValues : SetDatabase(t)
  \/ \E c \in calls, rows \in 0..MaxRows : Fulfil(c, rows)
  \/ \E c \in calls, rej \in Rejections : Reject(c, rej)
  \/ DeadFulfil
  \/ \E rej \in Rejections : DeadReject(rej)
  \/ Reload

PageSpec == PageInit /\ [][PageNext]_vars

\* the handlers called directly, whatever their buttons show, with the
\* filter inputs the handlers branch on
HandlerNext ==
  \/ ClickSearch
  \/ InvokeSearch
  \/ ClickClear
  \/ \E d \in DateValues : SetStartDate(d)
  \/ \E d \in DateValues : SetEndDate(d)
  \/ \E t \in QueryTexts : SetQuery(t)
  \/ \E c \in calls, rows \in 0..MaxRows : Fulfil(c, rows)
  \/ \E c \in calls, rej \in Rejections : Reject(c, rej)
  \/ DeadFulfil
  \/ \E rej \in Rejections : DeadReject(rej)
  \/ Reload

HandlerSpec == PageInit /\ [][HandlerNext]_vars

\* login, logout, navigation and reload, with the Dashboard's load
SessionNext ==
  \/ \E t \in Credentials : SetUsername(t)
  \/ \E t \in Credentials : SetPassword(t)
  \/ Submit
  \/ \E c \in calls, t \in Tokens, u \in Users : LoginFulfil(c, t, u)
  \/ \E c \in calls, rej \in Rejections : LoginReject(c, rej)
  \/ Logout
  \/ UserReload
  \/ \E r \in MenuRoutes : Navigate(r)
  \/ \E c \in calls, rows \in 0..MaxRows : DashFulfil(c, rows)
  \/ \E c \in calls, rej \in Rejections : DashReject(c, rej)
  \/ DeadFulfil
  \/ \E rej \in Rejections : DeadReject(rej)
  \/ Reload

SessionSpec == Init /\ [][SessionNext]_vars

\* PageSpec with a gateway that eventually answers every call of the mounted
\* page, and a browser that eventually performs a navigation it was given.
\* While a search is pending its button is disabled, so no call is added and
\* each answer leaves fewer calls in flight.
AnyResponse ==
  \E c \in calls :
    \/ \E rows \in 0..MaxRows : Fulfil(c, rows)
    \/ \E rej \in Rejections : Reject(c, rej)

FairPageSpec == PageSpec /\ WF_vars(AnyResponse) /\ WF_vars(Reload)

(***************************************************************************)
(* The utilities, the export and the API module: pure functions.  Numbers  *)
(* are integers (the counts the gateway returns) and the arithmetic is     *)
(* exact; a percentage is held in tenths or hundredths of a percent.       *)
(***************************************************************************)
appvars ==
  <<path, reloadPending, ls, store, form, pg, dash, calls, got, dead, session,
    ev>>

Abs(x) == IF x < 0 THEN 0 - x ELSE x

\* Math.round(n / d) for d > 0: the nearest integer, a tie going up
MathRound(n, d) == (2 * n + d) \div (2 * d)

\* the counts a function is applied to: small ones, and ones large enough
\* for a change of a few hundredths of a percent
Counts == (0..MaxCount) \cup {10000 + d : d \in (0 - MaxCount)..MaxCount}

\* variant: a calculateChange that takes the trend from the rounded change
calculateChangeOfRounded(current, previous) ==
  IF previous = Null \/ previous[1] = 0
    THEN [change10 |-> 0, trend |-> "neutral"]
    ELSE LET c10 == MathRound((current - previous[1]) * 1000, previous[1])
         IN [change10 |-> c10,
             trend |-> IF c10 > 0 THEN "up"
                       ELSE IF c10 < 0 THEN "down" ELSE "neutral"]

\* calculateChange, for previous absent (Null) or a count; change10 is the
\* returned change in tenths of a percent
calculateChange(current, previous) ==
  IF previous = Null \/ previous[1] = 0
    THEN [change10 |-> 0, trend |-> "neutral"]
    ELSE LET p == previous[1]
         IN IF Abs(current - p) * 10000 < p
              THEN [change10 |-> 0, trend |-> "neutral"]
              ELSE [change10 |-> MathRound((current - p) * 1000, p),
                    trend |-> IF current > p THEN "up" ELSE "down"]

CalculateChangeCalls ==
  { [fn |-> "calculateChange", current |-> c, previous |-> p, ret |-> Null] :
      c \in Counts, p \in {Null} \cup {Some(n) : n \in Counts} }

ApplyCalculateChange ==
  /\ util.fn = "calculateChange"
  /\ util.ret = Null
  /\ util' = [util EXCEPT
                !.ret = Some(calculateChange(util.current, util.previous))]
  /\ UNCHANGED appvars

\* Number(v) || 0 of a field that is absent (Null) or a count
NumberOr0(v) == IF v = Null THEN 0 ELSE v[1]

\* variant: a week-over-week change that divides by 1 for a previous of 0
weeklyChangeOverOne(current, previous) ==
  LET c == NumberOr0(current)
      p == IF NumberOr0(previous) > 0 THEN NumberOr0(previous) ELSE 1
  IN MathRound((c - p) * 10000, p)

\* changePercent of WeeklySummaryPage's trend metrics, in hundredths of a
\* percent, from the session_count of the first two rows
weeklyChange(current, previous) ==
  LET c == NumberOr0(current)
      p == NumberOr0(previous)
  IN IF p > 0 THEN MathRound((c - p) * 10000, p) ELSE 0

\* sessionChange and userChange of AdoptionAnalyticsPage's growth summary, in
\* hundredths of a percent; Null for NaN (latest absent, previous > 0)
adoptionChange(latest, previous) ==
  IF previous # Null /\ previous[1] > 0
    THEN IF latest = Null
           THEN Null
           ELSE Some(MathRound((latest[1] - previous[1]) * 10000, previous[1]))
    ELSE Some(0)

PercentCalls ==
  { [fn |-> f, current |-> c, previous |-> p, ret |-> Null] :
      f \in {"weeklyChange", "adoptionChange"},
      c \in {Null} \cup {Some(n) : n \in Counts},
      p \in {Null} \cup {Some(n) : n \in Counts} }

ApplyWeeklyChange ==
  /\ util.fn = "weeklyChange"
  /\ util.ret = Null
  /\ util' = [util EXCEPT
                !.ret = Some(weeklyChange(util.current, util.previous))]
  /\ UNCHANGED appvars

ApplyAdoptionChange ==
  /\ util.fn = "adoptionChange"
  /\ util.ret = Null
  /\ util' = [util EXCEPT
                !.ret = Some(adoptionChange(util.current, util.previous))]
  /\ UNCHANGED appvars

RECURSIVE SumTo(_, _)
\* f[1] + ... + f[n]
SumTo(f, n) == IF n = 0 THEN 0 ELSE f[n] + SumTo(f, n - 1)

\* variant: a bucketValues whose ranges exclude their upper end
bucketValuesHalfOpen(values, buckets) ==
  [i \in 1..Len(buckets) |->
     [label |-> buckets[i].label,
      count |-> Cardinality({k \in 1..Len(values) :
                               /\ values[k] >= buckets[i].min
                               /\ values[k] < buckets[i].max})]]

\* bucketValues: per bucket, in the given order, the number of positions of
\* `values` whose value lies in the bucket's range
bucketValues(values, buckets) ==
  [i \in 1..Len(buckets) |->
     [label |-> buckets[i].label,
      count |-> Cardinality({k \in 1..Len(values) :
                               /\ values[k] >= buckets[i].min
                               /\ values[k] <= buckets[i].max})]]

SeqsUpTo(S, n) == UNION { [1..k -> S] : k \in 0..n }

BucketCalls ==
  { [fn |-> "bucketValues", values |-> v, buckets |-> b, ret |-> Null] :
      v \in SeqsUpTo(0..3, MaxLen),
      b \in SeqsUpTo({ x \in { [label |-> <<lo, hi>>, min |-> lo, max |-> hi] :
                                 lo \in 0..3, hi \in 0..3 } :
                         x.min <= x.max }, 2) }

ApplyBucketValues ==
  /\ util.fn = "bucketValues"
  /\ util.ret = Null
  /\ util' = [util EXCEPT !.ret = Some(bucketValues(util.values, util.buckets))]
  /\ UNCHANGED appvars

\* the keys items are grouped by: "1" and "2" are array-index property
\* names, with the numeric values given here; "a" and "b" are not
KeyIndex == [k \in {"1", "2"} |-> IF k = "1" THEN 1 ELSE 2]

\* the position at which key k is first seen in data
FirstSeen(data, k) ==
  CHOOSE i \in 1..Len(data) :
    data[i] = k /\ \A j \in 1..(i - 1) : data[j] # k

\* Object.entries(counts): the own property names of the counts object, the
\* array-index names first in ascending numeric order, then the other
\* names in the order in which they were created
EntriesBefore(data, a, b) ==
  IF a \in DOMAIN KeyIndex
  THEN b \in DOMAIN KeyIndex => KeyIndex[a] < KeyIndex[b]
  ELSE b \notin DOMAIN KeyIndex /\ FirstSeen(data, a) < FirstSeen(data, b)

\* variant: a groupByCount that sorts by ascending count
groupByCountAscending(data) ==
  LET names == {data[i] : i \in 1..Len(data)}
      counts == [k \in names |->
                   Cardinality({i \in 1..Len(data) : data[i] = k})]
      Precedes(a, b) ==
        \/ counts[a] < counts[b]
        \/ counts[a] = counts[b] /\ a # b /\ EntriesBefore(data, a, b)
      name(p) ==
        CHOOSE k \in names :
          Cardinality({j \in names : Precedes(j, k)}) = p - 1
  IN [p \in 1..Cardinality(names) |->
        [name |-> name(p), count |-> counts[name(p)]]]

\* groupByCount with the key function the identity: count the items per
\* key, list the entries as Object.entries does, sort them by descending
\* count with the stable Array.prototype.sort
groupByCount(data) ==
  LET names == {data[i] : i \in 1..Len(data)}
      counts == [k \in names |->
                   Cardinality({i \in 1..Len(data) : data[i] = k})]
      Precedes(a, b) ==
        \/ counts[a] > counts[b]
        \/ counts[a] = counts[b] /\ a # b /\ EntriesBefore(data, a, b)
      name(p) ==
        CHOOSE k \in names :
          Cardinality({j \in names : Precedes(j, k)}) = p - 1
  IN [p \in 1..Cardinality(names) |->
        [name |-> name(p), count |-> counts[name(p)]]]

GroupCalls ==
  { [fn |-> "groupByCount", data |-> d, ret |-> Null] :
      d \in SeqsUpTo(DOMAIN KeyIndex \cup {"a", "b"}, MaxLen) }

ApplyGroupByCount ==
  /\ util.fn = "groupByCount"
  /\ util.ret = Null
  /\ util' = [util EXCEPT !.ret = Some(groupByCount(util.data))]
  /\ UNCHANGED appvars

\* Strings are sequences of characters; the fields of the exported rows
Fields == SeqsUpTo({"a", ",", "\"", "\n", "\r"}, MaxField)

RECURSIVE Join(_, _)
\* Array.prototype.join, and with the empty separator the concatenation
Join(parts, sep) ==
  IF Len(parts) = 0 THEN <<>>
  ELSE IF Len(parts) = 1 THEN parts[1]
  ELSE parts[1] \o sep \o Join(Tail(parts), sep)

\* escapeCSVValue: a value holding a comma, a double quote or a line feed is
\* put in double quotes with its double quotes doubled
escapeCSVValue(value) ==
  IF \E i \in 1..Len(value) : value[i] \in {",", "\"", "\n"}
  THEN <<"\"">>
       \o Join([i \in 1..Len(value) |->
                  IF value[i] = "\"" THEN <<"\"", "\"">> ELSE <<value[i]>>],
               <<>>)
       \o <<"\"">>
  ELSE value

\* the columns of the exported rows: Object.keys(data[0])
csvHeaders == << <<"a">>, <<"a", "a">> >>

\* exportToCSV: the text of the downloaded file
exportToCSV(data, includeHeaders) ==
  LET line(cells) ==
        Join([j \in 1..Len(cells) |-> escapeCSVValue(cells[j])], <<",">>)
      head == IF includeHeaders THEN <<line(csvHeaders)>> ELSE <<>>
      body == [r \in 1..Len(data) |->
                 line([j \in 1..Len(csvHeaders) |-> data[r][csvHeaders[j]]])]
  IN Join(head \o body, <<"\n">>)

ExportCalls ==
  { [fn |-> "exportToCSV", data |-> d, includeHeaders |-> h, ret |-> Null] :
      d \in SeqsUpTo([{csvHeaders[j] : j \in 1..Len(csvHeaders)} -> Fields], 1),
      h \in BOOLEAN }

\* exportToCSV returns without a download when there are no rows
ApplyExportToCSV ==
  /\ util.fn = "exportToCSV"
  /\ util.ret = Null
  /\ Len(util.data) > 0
  /\ util' = [util EXCEPT
                !.ret = Some(exportToCSV(util.data, util.includeHeaders))]
  /\ UNCHANGED appvars

\* the data DashboardPage hands to StatusDistributionChart for the rows of a
\* sessions_by_status response, and the chartData the chart makes of it
\* (item.count || 0 is item.count for the number that count is)
chartData(rows) ==
  LET data == [i \in 1..Len(rows) |->
                 [status |-> IF rows[i].status = "" THEN "Unknown"
                             ELSE rows[i].status,
                  count |-> NumberOr0(rows[i].session_count)]]
  IN [i \in 1..Len(data) |->
        [name |-> IF data[i].status = "" THEN "Unknown" ELSE data[i].status,
         value |-> data[i].count]]

\* variant: a label that cuts the share down to a whole percent
percentLabelFloor(value, total) == (100 * value) \div total

\* the share in a segment's label: (percent * 100).toFixed(0), where percent
\* is the segment's value over the total of the values
percentLabel(value, total) == MathRound(100 * value, total)

\* StatusDistributionChart: one Cell per entry of chartData; a label per
\* segment when the pie has a total to take shares of
StatusDistributionChart(rows) ==
  LET cd == chartData(rows)
      total == SumTo([i \in 1..Len(cd) |-> cd[i].value], Len(cd))
  IN [i \in 1..Len(cd) |->
        [name |-> cd[i].name,
         value |-> cd[i].value,
         percent |-> IF total > 0 THEN Some(percentLabel(cd[i].value, total))
                     ELSE Null]]

StatusCalls ==
  { [fn |-> "StatusDistributionChart", rows |-> r, ret |-> Null] :
      r \in SeqsUpTo([status : {"", "signed"},
                      session_count : {Null} \cup {Some(n) : n \in 0..2}],
                     MaxLen) }

ApplyStatusDistributionChart ==
  /\ util.fn = "StatusDistributionChart"
  /\ util.ret = Null
  /\ util' = [util EXCEPT !.ret = Some(StatusDistributionChart(util.rows))]
  /\ UNCHANGED appvars

\* the request AuditTrailPage builds of its filters: a tenant or user text
\* that is empty after trimming becomes undefined (Null)
auditTrailRequest(f) ==
  [query_type |-> Some("audit_trail"),
   tenant_id |-> IF Trim(f.tenantId) = "" THEN Null ELSE Some(Trim(f.tenantId)),
   user_id |-> IF Trim(f.userId) = "" THEN Null ELSE Some(Trim(f.userId)),
   start_date |-> Some(f.startDate),
   end_date |-> Some(f.endDate),
   limit |-> Some(f.limit)]

\* variant: an executeQuery that passes the whole request as params
executeQueryWholeRequest(request) ==
  LET params == request
  IN [method |-> "GET",
      url |-> <<"/api/v1/bi/query/", request.query_type[1]>>,
      params |-> params,
      query |-> [k \in {x \in DOMAIN params : params[x] # Null} |->
                   params[k][1]]]

\* biApi.executeQuery: GET /api/v1/bi/query/<query_type> with the rest of
\* the request as params; the query string axios makes of params holds the
\* fields that are not undefined
executeQuery(request) ==
  LET params == [k \in DOMAIN request \ {"query_type"} |-> request[k]]
  IN [method |-> "GET",
      url |-> <<"/api/v1/bi/query/", request.query_type[1]>>,
      params |-> params,
      query |-> [k \in {x \in DOMAIN params : params[x] # Null} |->
                   params[k][1]]]

ExecuteCalls ==
  { [fn |-> "executeQuery", filters |-> f, ret |-> Null] :
      f \in [tenantId : {"", " ", "t1"}, userId : {"", " ", "u1"},
             startDate : {"2024-01-01"}, endDate : {"2024-01-01", "2024-01-31"},
             limit : {100, 1000}] }

ApplyExecuteQuery ==
  /\ util.fn = "executeQuery"
  /\ util.ret = Null
  /\ util' = [util EXCEPT
                !.ret = Some(executeQuery(auditTrailRequest(util.filters)))]
  /\ UNCHANGED appvars

\* BUCKETS of the aging chart; days are held in half days, so that 3 stands
\* for 1.5 days; Null stands for the Infinity of the last bucket
BUCKETS ==
  << [label |-> "0-1 days", min |-> 0, max |-> Some(2)],
     [label |-> "2-3 days", min |-> 4, max |-> Some(6)],
     [label |-> "4-7 days", min |-> 8, max |-> Some(14)],
     [label |-> "8+ days", min |-> 16, max |-> Null] >>

\* UnsignedNotesAgingChart: per bucket the number of notes whose days
\* (days_pending ?? daysPending ?? 0) lie in it, and the total of the
\* subtitle; nothing of either for no data
UnsignedNotesAgingChart(data) ==
  LET days(note) ==
        IF note.days_pending # Null THEN note.days_pending[1]
        ELSE IF note.daysPending # Null THEN note.daysPending[1]
        ELSE 0
      within(note, bucket) ==
        /\ days(note) >= bucket.min
        /\ bucket.max # Null => days(note) <= bucket.max[1]
  IN IF Len(data) = 0 THEN [bucketCounts |-> <<>>, totalNotes |-> Null]
     ELSE [bucketCounts |->
             [b \in 1..Len(BUCKETS) |->
                [bucket |-> BUCKETS[b].label,
                 count |-> Cardinality({i \in 1..Len(data) :
                                          within(data[i], BUCKETS[b])})]],
           totalNotes |-> Some(Len(data))]

AgingCalls ==
  { [fn |-> "UnsignedNotesAgingChart", data |-> d, ret |-> Null] :
      d \in SeqsUpTo({ n \in [days_pending :
                               {Null} \cup {Some(h) : h \in {-2, 0, 2, 3, 4, 16, 200}},
                             daysPending : {Null, Some(10)}] :
                          n.daysPending = Null \/ n.days_pending \in {Null, Some(0)} },
                     MaxLen) }

ApplyUnsignedNotesAgingChart ==
  /\ util.fn = "UnsignedNotesAgingChart"
  /\ util.ret = Null
  /\ util' = [util EXCEPT !.ret = Some(UnsignedNotesAgingChart(util.data))]
  /\ UNCHANGED appvars

\* formatDuration of a whole number of seconds: the numbers of the text
\* `${s}s`, `${m}m`, `${h}h ${m}m` or `${h}h` (Null for a part not in it)
formatDuration(seconds) ==
  IF seconds < 60
  THEN [h |-> Null, m |-> Null, s |-> Some(seconds)]
  ELSE IF seconds < 3600
  THEN [h |-> Null, m |-> Some(MathRound(seconds, 60)), s |-> Null]
  ELSE LET hours == seconds \div 3600
           minutes == MathRound(seconds % 3600, 60)
       IN [h |-> Some(hours),
           m |-> IF minutes > 0 THEN Some(minutes) ELSE Null,
           s |-> Null]

DurationCalls ==
  { [fn |-> "formatDuration", seconds |-> n, ret |-> Null] : n \in 0..7300 }

ApplyFormatDuration ==
  /\ util.fn = "formatDuration"
  /\ util.ret = Null
  /\ util' = [util EXCEPT !.ret = Some(formatDuration(util.seconds))]
  /\ UNCHANGED appvars

UtilCalls ==
  CalculateChangeCalls
    \cup PercentCalls
    \cup BucketCalls
    \cup GroupCalls
    \cup ExportCalls
    \cup StatusCalls
    \cup ExecuteCalls
    \cup AgingCalls
    \cup DurationCalls

UtilInit ==
  /\ path = LOGIN
  /\ reloadPending = FALSE
  /\ ls = NoTok
  /\ store = InitStore(NoTok)
  /\ form = InitForm
  /\ pg = InitPage(LOGIN)
  /\ dash = DashOff
  /\ calls = {}
  /\ got = EmptyGot
  /\ dead = 0
  /\ session = NoTok
  /\ ev = Ev("init")
  /\ util \in UtilCalls

UtilNext ==
  \/ ApplyCalculateChange
  \/ ApplyWeeklyChange
  \/ ApplyAdoptionChange
  \/ ApplyBucketValues
  \/ ApplyGroupByCount
  \/ ApplyExportToCSV
  \/ ApplyStatusDistributionChart
  \/ ApplyExecuteQuery
  \/ ApplyUnsignedNotesAgingChart
  \/ ApplyFormatDuration

UtilSpec == UtilInit /\ [][UtilNext]_vars

(***************************************************************************)
(* The Query Gateway.  The server side is known by its contract, and is    *)
(* modelled from it: a request names a query type and carries a            *)
(* set of filters; an unknown query type is answered with a client error, a *)
(* request lacking a filter its template requires with a validation error,  *)
(* and any other request is submitted to the external query-execution       *)
(* service, whose outcome is returned.                                      *)
(***************************************************************************)

\* the filters each template of the catalog requires: a date range for the
\* time-bounded queries
RequiredFilters ==
  [q \in {"total_sessions", "sessions_by_status", "audit_trail",
          "weekly_summary"} |->
     IF q = "total_sessions" THEN {} ELSE {"start_date", "end_date"}]

GatewayInit ==
  /\ path = LOGIN
  /\ reloadPending = FALSE
  /\ ls = NoTok
  /\ store = InitStore(NoTok)
  /\ form = InitForm
  /\ pg = InitPage(LOGIN)
  /\ dash = DashOff
  /\ calls = {}
  /\ got = EmptyGot
  /\ dead = 0
  /\ session = NoTok
  /\ ev = Ev("init")
  /\ util \in { [fn |-> "gateway", query_type |-> q, filters |-> f,
                 pc |-> "received", external |-> 0, response |-> Null] :
                  q \in DOMAIN RequiredFilters \cup {"no_such_query"},
                  f \in SUBSET {"start_date", "end_date", "tenant_id",
                                "limit"} }

\* variant: a gateway that submits every known query without looking at
\* its filters
GatewayRespondUnvalidated ==
  /\ util.fn = "gateway"
  /\ util.pc = "received"
  /\ util' =
       IF util.query_type \notin DOMAIN RequiredFilters
       THEN [util EXCEPT !.pc = "responded",
                         !.response = Some("client error")]
       ELSE [util EXCEPT !.pc = "executing", !.external = util.external + 1]
  /\ UNCHANGED appvars

\* the gateway resolves the template and validates the filters, and only
\* then submits the query for execution
GatewayRespond ==
  /\ util.fn = "gateway"
  /\ util.pc = "received"
  /\ util' =
       IF util.query_type \notin DOMAIN RequiredFilters
       THEN [util EXCEPT !.pc = "responded",
                         !.response = Some("client error")]
       ELSE IF RequiredFilters[util.query_type] \ util.filters # {}
       THEN [util EXCEPT !.pc = "responded",
                         !.response = Some("validation error")]
       ELSE [util EXCEPT !.pc = "executing", !.external = util.external + 1]
  /\ UNCHANGED appvars

\* the external service completes, fails or times out, and the gateway
\* returns the result envelope or the error
ExternalSettle ==
  /\ util.fn = "gateway"
  /\ util.pc = "executing"
  /\ \E outcome \in {"result envelope", "retryable error", "terminal error"} :
       util' = [util EXCEPT !.pc = "responded", !.response = Some(outcome)]
  /\ UNCHANGED appvars

GatewayNext == GatewayRespond \/ ExternalSettle

GatewaySpec == GatewayInit /\ [][GatewayNext]_vars

(***************************************************************************)
(* The auth store by itself: its three operations applied in any order to  *)
(* a store created from any localStorage.  util holds the history of the   *)
(* operations applied.                                                     *)
(***************************************************************************)
StoreInit ==
  /\ path = LOGIN
  /\ reloadPending = FALSE
  /\ ls \in {NoTok} \cup Tokens
  /\ store = InitStore(ls)
  /\ form = InitForm
  /\ pg = InitPage(LOGIN)
  /\ dash = DashOff
  /\ calls = {}
  /\ got = EmptyGot
  /\ dead = 0
  /\ session = NoTok
  /\ ev = Ev("init")
  /\ util = [fn |-> "useAuthStore", ops |-> <<>>]

StoreSetUser ==
  /\ Len(util.ops) < MaxOps
  /\ \E user \in {NoUser} \cup Users :
       /\ store' = setUser(store, user)
       /\ util' = [util EXCEPT !.ops = Append(@, <<"setUser", user>>)]
  /\ ev' = Ev("setUser")
  /\ UNCHANGED <<path, reloadPending, ls, form, pg, dash, calls, got, dead,
                 session>>

StoreSetToken ==
  /\ Len(util.ops) < MaxOps
  /\ \E token \in {NoTok} \cup Tokens :
       /\ store' = setToken(store, token)
       /\ ls' = setTokenStorage(token)
       /\ util' = [util EXCEPT !.ops = Append(@, <<"setToken", token>>)]
  /\ ev' = Ev("setToken")
  /\ UNCHANGED <<path, reloadPending, form, pg, dash, calls, got, dead,
                 session>>

StoreLogout ==
  /\ Len(util.ops) < MaxOps
  /\ store' = logoutStore
  /\ ls' = NoTok
  /\ util' = [util EXCEPT !.ops = Append(@, <<"logout">>)]
  /\ ev' = Ev("logout")
  /\ UNCHANGED <<path, reloadPending, form, pg, dash, calls, got, dead,
                 session>>

StoreNext == StoreSetUser \/ StoreSetToken \/ StoreLogout

StoreSpec == StoreInit /\ [][StoreNext]_vars

(***************************************************************************)
(* DataTable under its owning page.  The page renders the table only while *)
(* it holds a result with rows: a search or a clear sets the result null   *)
(* and the table is unmounted, a result that arrives mounts a new table.   *)
(* util holds the table: the number of rows of its data (Null while it is  *)
(* not mounted), page and rowsPerPage.                                     *)
(***************************************************************************)
TableInit ==
  /\ path = ANALYTICS
  /\ reloadPending = FALSE
  /\ ls = "T1"
  /\ store = loginStore(InitStore(NoTok), "T1", "admin")
  /\ form = InitForm
  /\ pg = InitPage(ANALYTICS)
  /\ dash = DashOff
  /\ calls = {}
  /\ got = EmptyGot
  /\ dead = 0
  /\ session = "T1"
  /\ ev = Ev("navigate")
  /\ util = [fn |-> "DataTable", data |-> Null, page |-> 0, rowsPerPage |-> 25]

\* setQueryResult(result) with rows: the table is mounted with its initial
\* state
TableMount ==
  /\ util.data = Null
  /\ \E n \in 1..MaxData :
       util' = [util EXCEPT !.data = Some(n), !.page = 0, !.rowsPerPage = 25]
  /\ UNCHANGED appvars

\* setQueryResult(null) of handleExecute and handleClear
TableUnmount ==
  /\ util.data # Null
  /\ util' = [util EXCEPT !.data = Null]
  /\ UNCHANGED appvars

\* the previous and next buttons of TablePagination, which are disabled on
\* the first and on the last page
handleChangePage ==
  /\ util.data # Null
  /\ \E newPage \in {util.page - 1, util.page + 1} :
       /\ newPage >= 0
       /\ newPage * util.rowsPerPage < util.data[1]
       /\ util' = [util EXCEPT !.page = newPage]
  /\ UNCHANGED appvars

\* variant: a change of the rows per page that keeps the page
handleChangeRowsPerPageKeepsPage ==
  /\ util.data # Null
  /\ \E r \in {10, 25, 50, 100} :
       util' = [util EXCEPT !.rowsPerPage = r]
  /\ UNCHANGED appvars

\* the rows-per-page select: setRowsPerPage, setPage(0)
handleChangeRowsPerPage ==
  /\ util.data # Null
  /\ \E r \in {10, 25, 50, 100} :
       util' = [util EXCEPT !.rowsPerPage = r, !.page = 0]
  /\ UNCHANGED appvars

TableNext ==
  TableMount \/ TableUnmount \/ handleChangePage \/ handleChangeRowsPerPage

TableSpec == TableInit /\ [][TableNext]_vars

(***************************************************************************)
(* Claims.                                                                 *)
(***************************************************************************)
Shown(s) ==
  s.results # Null \/ s.derived # Null \/ s.countData # Null
    \/ s.practitionerData # Null

\* C1: provided the gateway eventually answers every request, a filter page
\* that is loading eventually has loading cleared with either results set or
\* an error message set - also when a date filter holds an Invalid Date -
\* unless the page is unmounted first.
C1_SearchSettles ==
  (path \in FilterPages /\ pg.loading)
    ~> \/ path \notin FilterPages
       \/ ~pg.loading /\ (pg.results # Null \/ pg.error # "")

\* C1, the finite form: a page that is loading has a call of its search in
\* flight, whose answer will clear loading.
C1_LoadingHasCall ==
  (path \in FilterPages /\ pg.loading)
     => \E c \in calls : c.page = path /\ c.gen = pg.gen

Filters(s) ==
  <<s.tenantId, s.userId, s.startDate, s.endDate, s.limit, s.query, s.database>>

\* the required filters of the page are present
Required(p, s) ==
  IF p = ANALYTICS THEN Trim(s.query) # ""
                   ELSE s.startDate # NoDate /\ s.endDate # NoDate

Pending == \E c \in calls : c.page = path

\* C2 as stated: while a search of a filter page is pending (and its
\* required filters are present) a second search can be started.
C2_SecondSearchWhilePending ==
  (path \in FilterPages /\ Pending /\ Required(path, pg))
     => ~SearchDisabled(path, pg)

\* C2: searches of a filter page never overlap: every call in flight belongs
\* to the search issued last, the button is disabled while a call is in
\* flight, and whatever is displayed was returned to the search issued last.
C2_SearchesNeverOverlap ==
  path \in FilterPages =>
    /\ \A c \in calls : c.page = path /\ c.gen = pg.gen
    /\ Pending => pg.loading /\ SearchDisabled(path, pg)
    /\ \A f \in {pg.results, pg.derived, pg.countData, pg.practitionerData} :
         f # Null => f[1].gen = pg.gen

C2_Witness ==
  /\ path \in FilterPages
  /\ ev.op = "fulfil"
  /\ pg.gen = 2
  /\ pg.results # Null
  /\ pg.results[1].gen = 2

\* C3: on Unsigned Notes the three queries are issued together; while any of
\* them is in flight nothing is stored for display; after a rejection the
\* page shows its error and none of rows, count and practitioner data; and
\* what is displayed is the three values of one search.
C3_UnsignedJoin ==
  path = UNSIGNED =>
    /\ (ev.op = "search" /\ calls # {})
         => {c.qt : c \in calls} = UnsignedQueries
    /\ Pending => ~Shown(pg)
    /\ ev.op = "reject"
         => pg.error = ErrorMessage(ev.rej) /\ ~Shown(pg) /\ ~pg.loading
    /\ Shown(pg)
         => /\ pg.results # Null /\ pg.practitionerData # Null
            /\ pg.results[1].qt = "unsigned_notes"
            /\ pg.practitionerData[1].qt = "unsigned_notes_by_practitioner"
            /\ pg.practitionerData[1].gen = pg.results[1].gen

\* one of the three was rejected after exactly one other had fulfilled
C3_Witness ==
  /\ path = UNSIGNED
  /\ ev.op = "reject"
  /\ pg.gen = 1
  /\ dead = 1
  /\ pg.error # ""
  /\ ~Shown(pg)

\* C4: after a data load ends a page holds either the data of every query of
\* the load and no error, or an error and no data of the load; on the
\* Dashboard: a failed load left no metrics, status rows or tenant rows, and
\* a completed load left no error.
C4_NoPartialResult ==
  /\ dash.pc = "failed"
       => dash.metrics = Null /\ dash.sessionsByStatus = 0
            /\ dash.topTenants = 0
  /\ dash.pc = "done" => dash.error = ""
  /\ (path \in FilterPages /\ ~pg.loading) => ~(pg.error # "" /\ Shown(pg))

\* C5: a run of the Search handler of a date page with the start or the end
\* date absent issues no call, does not enter loading and sets the
\* validation message.
C5_AbsentDate ==
  [][(/\ ev'.op \in {"search", "invoke"}
      /\ path \in DatePages
      /\ (pg.startDate = NoDate \/ pg.endDate = NoDate))
       => /\ calls' = calls
          /\ pg'.loading = pg.loading
          /\ pg'.gen = pg.gen
          /\ pg'.error = MsgDates]_vars

C5_Witness ==
  /\ ev.op = "invoke"
  /\ path \in DatePages
  /\ pg.startDate # NoDate
  /\ pg.endDate = NoDate
  /\ ~pg.loading
  /\ pg.error = MsgDates
  /\ calls = {}

\* C6 as stated: after a call of a search rejects the page has loading false,
\* shows the message of the rejection, holds no results or derived metrics,
\* and has its Search button enabled.
C6_RejectedAndEnabled ==
  (path \in FilterPages /\ ev.op = "reject")
     => /\ ~pg.loading
        /\ pg.error = ErrorMessage(ev.rej)
        /\ ~Shown(pg)
        /\ ~SearchDisabled(path, pg)

\* C6: after a call of a search rejects the page has loading false, shows the
\* message of the rejection, holds no results or derived metrics, and has its
\* Search button enabled exactly if the required filters are still present.
C6_Rejected ==
  (path \in FilterPages /\ ev.op = "reject")
     => /\ ~pg.loading
        /\ pg.error = ErrorMessage(ev.rej)
        /\ ~Shown(pg)
        /\ SearchDisabled(path, pg) <=> ~Required(path, pg)

C6_Witness ==
  /\ path \in {ADOPTION, ANALYTICS}
  /\ ev.op = "reject"
  /\ ev.rej.status = 500
  /\ pg.error = "Query failed"
  /\ ~SearchDisabled(path, pg)

\* C7: Clear runs only while the page is not loading, leaves error, results
\* and every derived metric null and the filters at their defaults, and
\* leaves the view mode as it was.
C7_Clear ==
  [][ev'.op = "clear"
       => /\ ~pg.loading
          /\ ~pg'.loading
          /\ pg'.error = ""
          /\ ~Shown(pg')
          /\ Filters(pg') = Filters(InitPage(path))
          /\ pg'.viewMode = pg.viewMode]_vars

\* Clear after a search of a view other than the default one
C7_Witness ==
  /\ ev.op = "clear"
  /\ path \in {SERVICE, ADOPTION}
  /\ pg.viewMode # DefaultView(path)
  /\ pg.gen > 0
  /\ Filters(pg) = Filters(InitPage(path))
  /\ ~Shown(pg)

\* C8: a 401 response to any call removes the stored token and either finds
\* the client unauthenticated on the login page or hands the browser a
\* navigation to the login page; when that navigation is performed the client
\* is on the login page, unauthenticated and without a token.
C8_Unauthorized ==
  [][/\ (ev'.op \in RejectOps /\ ev'.rej.status = 401)
          => /\ ls' = NoTok
             /\ IF path' = LOGIN THEN ~store'.isAuthenticated
                                 ELSE reloadPending'
     /\ (reloadPending /\ ~reloadPending')
          => /\ path' = LOGIN
             /\ ls' = NoTok
             /\ store' = InitStore(NoTok)]_vars

\* the navigation of a 401 performed
C8_Witness ==
  /\ ev.op = "reload"
  /\ path = LOGIN
  /\ session = NoTok
  /\ ls = NoTok
  /\ ~store.isAuthenticated

\* C9: a request issued while the login of token t is current (no logout and
\* no 401 since) carries Authorization: Bearer t, and a request issued with no
\* stored token carries no Authorization header.
C9_BearerOfLogin ==
  [][\A c \in calls' \ calls :
        /\ session' # NoTok => c.auth = Some(<<"Bearer", session'>>)
        /\ ls' = NoTok => c.auth = Null]_vars

\* a search issued under the token the login returned
C9_Witness ==
  /\ session = "T2"
  /\ ev.op = "search"
  /\ \E c \in calls :
       c.page \in FilterPages /\ c.auth = Some(<<"Bearer", "T2">>)

\* C10: after a rejected login the form shows "Invalid username or password"
\* and is not loading, no token is in the store or in local storage, the
\* client is unauthenticated and still on the login page.
C10_RejectedLogin ==
  ev.op = "loginFail"
    => /\ LoginAlert(form) = MsgInvalidLogin
       /\ ~form.loading
       /\ store.token = NoTok
       /\ ls = NoTok
       /\ ~store.isAuthenticated
       /\ path = LOGIN
       /\ dash.pc = "off"

C10_Witness ==
  /\ ev.op = "loginFail"
  /\ ev.rej.status = 401
  /\ LoginAlert(form) = MsgInvalidLogin
  /\ form.username # ""
  /\ path = LOGIN

\* C11: the access_token entry of local storage changes only in a step of
\* the auth store's setToken (a successful login) or logout.
C11_SingleWriter ==
  [][ls' # ls => ev'.op \in {"loginOk", "logout"}]_vars

\* C12: a reload keeps the access_token entry and nothing else: after it the
\* store holds the stored token, is authenticated exactly if there is one and
\* has no user, and the login form and the pages are in their initial state.
C12_ReloadKeepsTokenOnly ==
  [][ev'.op \in {"reload", "userReload"}
       => /\ ls' = ls
          /\ store' = [user |-> NoUser, token |-> ls,
                       isAuthenticated |-> (ls # NoTok)]
          /\ form' = InitForm
          /\ pg' = InitPage(path')
          /\ got' = EmptyGot
          /\ dash' \in {DashOff, DashMounted}]_vars

\* a logged-in user reloaded a filter page: authenticated, identity gone
C12_Witness ==
  /\ ev.op = "userReload"
  /\ path \in FilterPages
  /\ ls = "T2"
  /\ store.isAuthenticated
  /\ store.token = "T2"
  /\ store.user = NoUser

\* outside a pending redirect, a protected route is mounted only with a
\* stored token
C12_TokenOnProtectedRoute ==
  (path # LOGIN /\ ~reloadPending) => ls # NoTok

Applied(fn) == util.fn = fn /\ util.ret # Null

\* C13: for previous > 0, calculateChange returns the change rounded to one
\* decimal (within half a tenth of the exact value) and a trend that has the
\* sign of the returned change: up iff > 0, down iff < 0, neutral iff = 0.
C13_ChangeAndTrend ==
  (Applied("calculateChange") /\ util.previous # Null /\ util.previous[1] > 0)
    => LET p == util.previous[1]
           r == util.ret[1]
       IN /\ 2 * Abs(r.change10 * p - (util.current - p) * 1000) <= p
          /\ r.trend = "up" <=> r.change10 > 0
          /\ r.trend = "down" <=> r.change10 < 0
          /\ r.trend = "neutral" <=> r.change10 = 0

\* C13, the rounding alone
C13_Rounded ==
  (Applied("calculateChange") /\ util.previous # Null /\ util.previous[1] > 0)
    => LET p == util.previous[1]
       IN 2 * Abs(util.ret[1].change10 * p - (util.current - p) * 1000) <= p

\* C14: with a previous value that is 0 or absent, calculateChange returns
\* change 0 and trend neutral, the Weekly Summary change is 0 and the Adoption
\* Analytics change is 0 (no division takes place).
C14_ZeroPrevious ==
  (/\ util.fn \in {"calculateChange", "weeklyChange", "adoptionChange"}
   /\ util.ret # Null
   /\ (util.previous = Null \/ util.previous[1] = 0))
    => /\ util.fn = "calculateChange"
            => util.ret[1] = [change10 |-> 0, trend |-> "neutral"]
       /\ util.fn = "weeklyChange" => util.ret[1] = 0
       /\ util.fn = "adoptionChange" => util.ret[1] = Some(0)

\* the week-over-week change applied to a previous count of 0
C14_Witness ==
  /\ Applied("weeklyChange")
  /\ util.previous = Some(0)
  /\ util.current = Some(MaxCount)
  /\ util.ret[1] = 0

\* the number of buckets whose range contains x
Containing(x, buckets) ==
  Cardinality({i \in 1..Len(buckets) :
                 buckets[i].min <= x /\ x <= buckets[i].max})

\* C15: bucketValues returns one entry per bucket, in the given order; each
\* value adds one to every bucket whose range contains it; so with ranges
\* that are pairwise disjoint and cover all the values the counts add up to
\* the number of values.
C15_Buckets ==
  Applied("bucketValues") =>
    LET v == util.values
        b == util.buckets
        r == util.ret[1]
        total == SumTo([i \in 1..Len(r) |-> r[i].count], Len(r))
    IN /\ Len(r) = Len(b)
       /\ \A i \in 1..Len(b) : r[i].label = b[i].label
       /\ total = SumTo([k \in 1..Len(v) |-> Containing(v[k], b)], Len(v))
       /\ (\A k \in 1..Len(v) : Containing(v[k], b) = 1) => total = Len(v)

\* two disjoint ranges covering MaxLen values, one of them on a range's end
C15_Witness ==
  /\ Applied("bucketValues")
  /\ Len(util.values) = MaxLen
  /\ Len(util.buckets) = 2
  /\ \A k \in 1..MaxLen : Containing(util.values[k], util.buckets) = 1
  /\ \E k \in 1..MaxLen : util.values[k] = util.buckets[1].max
  /\ util.ret[1][1].count + util.ret[1][2].count = MaxLen

\* groupByCount returns one entry per distinct key, each with the number of
\* items of that key, and no entry's count is below a later entry's
C16_OnePerKeyByCount ==
  Applied("groupByCount") =>
    LET d == util.data
        r == util.ret[1]
    IN /\ {r[p].name : p \in 1..Len(r)} = {d[i] : i \in 1..Len(d)}
       /\ \A p, q \in 1..Len(r) : r[p].name = r[q].name => p = q
       /\ \A p \in 1..Len(r) :
            r[p].count = Cardinality({i \in 1..Len(d) : d[i] = r[p].name})
       /\ \A p, q \in 1..Len(r) : p < q => r[p].count >= r[q].count

RECURSIVE ParseFrom(_, _, _, _, _, _)
\* A standard CSV reader, from position i of text s, with the records read
\* so far, the cells of the current record, the characters of the current
\* cell, and whether the position is inside a quoted cell. Outside quotes a
\* comma ends the cell and LF, CR or CR LF ends the record; a double quote
\* at the start of a cell opens a quoted cell, inside which a doubled double
\* quote stands for one and a single one closes the quoting.
ParseFrom(s, i, records, cells, cell, quoted) ==
  IF i > Len(s) THEN Append(records, Append(cells, cell))
  ELSE IF quoted
  THEN IF s[i] # "\""
       THEN ParseFrom(s, i + 1, records, cells, Append(cell, s[i]), TRUE)
       ELSE IF i < Len(s) /\ s[i + 1] = "\""
       THEN ParseFrom(s, i + 2, records, cells, Append(cell, "\""), TRUE)
       ELSE ParseFrom(s, i + 1, records, cells, cell, FALSE)
  ELSE IF s[i] = "\"" /\ cell = <<>>
  THEN ParseFrom(s, i + 1, records, cells, cell, TRUE)
  ELSE IF s[i] = ","
  THEN ParseFrom(s, i + 1, records, Append(cells, cell), <<>>, FALSE)
  ELSE IF s[i] = "\n"
  THEN ParseFrom(s, i + 1, Append(records, Append(cells, cell)),
                 <<>>, <<>>, FALSE)
  ELSE IF s[i] = "\r"
  THEN ParseFrom(s, IF i < Len(s) /\ s[i + 1] = "\n" THEN i + 2 ELSE i + 1,
                 Append(records, Append(cells, cell)), <<>>, <<>>, FALSE)
  ELSE ParseFrom(s, i + 1, records, cells, Append(cell, s[i]), FALSE)

\* the records an export of util.data is expected to be read back as
Exported ==
  (IF util.includeHeaders THEN <<csvHeaders>> ELSE <<>>)
  \o [r \in 1..Len(util.data) |->
        [j \in 1..Len(csvHeaders) |-> util.data[r][csvHeaders[j]]]]

\* C17: the text exportToCSV writes for rows of string fields over an
\* alphabet with comma, double quote, LF and CR is read back by a standard
\* CSV reader as the same header and fields, and a field with a comma is
\* written in double quotes.
C17_RoundTrip ==
  Applied("exportToCSV") =>
    /\ ParseFrom(util.ret[1], 1, <<>>, <<>>, <<>>, FALSE) = Exported
    /\ \A f \in Fields :
         (\E i \in 1..Len(f) : f[i] = ",") =>
           /\ Head(escapeCSVValue(f)) = "\""
           /\ escapeCSVValue(f)[Len(escapeCSVValue(f))] = "\""

\* the same for fields without a carriage return
C17_RoundTripWithoutCR ==
  (/\ Applied("exportToCSV")
   /\ \A r \in 1..Len(util.data) : \A j \in 1..Len(csvHeaders) :
        \A i \in 1..Len(util.data[r][csvHeaders[j]]) :
          util.data[r][csvHeaders[j]][i] # "\r") =>
    ParseFrom(util.ret[1], 1, <<>>, <<>>, <<>>, FALSE) = Exported

\* the status chart has one segment per row of the response, in order, with
\* the row's session_count as its value (0 for a row without one)
SegmentPerRow ==
  LET r == util.ret[1]
  IN /\ Len(r) = Len(util.rows)
     /\ \A i \in 1..Len(r) :
          r[i].value = NumberOr0(util.rows[i].session_count)

\* the total of the session counts, and of the shares shown in the labels
TotalCount ==
  SumTo([i \in 1..Len(util.rows) |-> NumberOr0(util.rows[i].session_count)],
        Len(util.rows))

SharesShown ==
  SumTo([i \in 1..Len(util.ret[1]) |-> util.ret[1][i].percent[1]],
        Len(util.ret[1]))

\* C18 as stated: for a sessions_by_status response with sessions in it the
\* status chart has exactly one segment per row, valued with the row's
\* session_count, and the shares shown add up to 100%.
C18_SharesSumTo100 ==
  (Applied("StatusDistributionChart") /\ TotalCount > 0) =>
    SegmentPerRow /\ SharesShown = 100

\* C18: the status chart has exactly one segment per row, valued with the
\* row's session_count; for a response with sessions in it each share shown
\* is the segment's share of the total rounded to a whole percent, so the n
\* shares shown add up to 100% give or take n/2.
C18_SharesRounded ==
  Applied("StatusDistributionChart") =>
    /\ SegmentPerRow
    /\ TotalCount > 0 =>
         /\ \A i \in 1..Len(util.ret[1]) :
              2 * Abs(100 * util.ret[1][i].value
                      - util.ret[1][i].percent[1] * TotalCount) <= TotalCount
         /\ 2 * Abs(SharesShown - 100) <= Len(util.rows)

\* three rows of one session each: three segments of 33%
C18_Witness ==
  /\ Applied("StatusDistributionChart")
  /\ Len(util.rows) = 3
  /\ \A i \in 1..3 : util.rows[i].session_count = Some(1)
  /\ \A i \in 1..3 : util.ret[1][i].value = 1 /\ util.ret[1][i].percent = Some(33)

\* C19: the search of the audit trail issues a GET to
\* /api/v1/bi/query/audit_trail whose query parameters are the other fields
\* of the request (tenant_id, user_id, start_date, end_date, limit) and never
\* query_type; a tenant or user filter that is empty after trimming is absent
\* from them, any other is sent trimmed.
C19_QueryParams ==
  Applied("executeQuery") =>
    LET f == util.filters
        get == util.ret[1]
        Blank(t) == t \in {"", " "}
        expected ==
          {"start_date", "end_date", "limit"}
          \cup (IF Blank(f.tenantId) THEN {} ELSE {"tenant_id"})
          \cup (IF Blank(f.userId) THEN {} ELSE {"user_id"})
    IN /\ get.method = "GET"
       /\ get.url = <<"/api/v1/bi/query/", "audit_trail">>
       /\ DOMAIN get.params =
            {"tenant_id", "user_id", "start_date", "end_date", "limit"}
       /\ DOMAIN get.query = expected
       /\ get.query["start_date"] = f.startDate
       /\ get.query["end_date"] = f.endDate
       /\ get.query["limit"] = f.limit
       /\ ~Blank(f.tenantId) => get.query["tenant_id"] = f.tenantId
       /\ ~Blank(f.userId) => get.query["user_id"] = f.userId

\* a search with a blank tenant filter and a user filter
C19_Witness ==
  /\ Applied("executeQuery")
  /\ util.filters.tenantId = " "
  /\ util.filters.userId = "u1"
  /\ DOMAIN util.ret[1].query = {"user_id", "start_date", "end_date", "limit"}

C20_MissingStartDate ==
  (/\ util.fn = "gateway"
   /\ util.query_type \in {"sessions_by_status", "audit_trail", "weekly_summary"}
   /\ "start_date" \notin util.filters) =>
    /\ util.external = 0
    /\ util.pc # "executing"
    /\ util.pc = "responded" => util.response = Some("validation error")

\* an audit trail request with an end date only, answered
C20_Witness ==
  /\ util.fn = "gateway"
  /\ util.query_type = "audit_trail"
  /\ util.filters = {"end_date"}
  /\ util.pc = "responded"
  /\ util.response = Some("validation error")
  /\ util.external = 0

\* the app logged out and resting on the login page
LoggedOut ==
  /\ store = [user |-> NoUser, token |-> NoTok, isAuthenticated |-> FALSE]
  /\ ls = NoTok
  /\ path = LOGIN

\* C21: a logout, with or without requests pending, leaves the auth store
\* with no user, no token and isAuthenticated false, localStorage without
\* access_token and the location /login; and the app then stays so, whatever
\* responses arrive, until a login succeeds.
C21_Logout ==
  [][/\ ev'.op = "logout" => LoggedOut'
     /\ (LoggedOut /\ ev'.op # "loginOk") => LoggedOut']_vars

\* a logout with a request pending
C21_Witness ==
  /\ ev.op = "logout"
  /\ dead > 0
  /\ LoggedOut

\* the bucket counts of the aging chart add up to the total of its subtitle
AgingCountsAddUp ==
  LET r == util.ret[1]
  IN SumTo([b \in 1..Len(r.bucketCounts) |-> r.bucketCounts[b].count],
           Len(r.bucketCounts)) = r.totalNotes[1]

\* C22: the aging chart of a non-empty list of notes has the four buckets
\* 0-1, 2-3, 4-7 and 8+ days, and their counts add up to the total number of
\* notes of the subtitle, whatever the notes' days_pending are.
C22_EveryNoteCounted ==
  (Applied("UnsignedNotesAgingChart") /\ Len(util.data) > 0) =>
    /\ Len(util.ret[1].bucketCounts) = 4
    /\ util.ret[1].totalNotes = Some(Len(util.data))
    /\ AgingCountsAddUp

\* the same for notes whose days_pending is missing or a whole number of
\* days that is not negative
C22_WholeDaysCounted ==
  (/\ Applied("UnsignedNotesAgingChart")
   /\ Len(util.data) > 0
   /\ \A i \in 1..Len(util.data) :
        \/ util.data[i].days_pending = Null
        \/ util.data[i].days_pending[1] \in {2 * n : n \in 0..100}) =>
    /\ Len(util.ret[1].bucketCounts) = 4
    /\ util.ret[1].totalNotes = Some(Len(util.data))
    /\ AgingCountsAddUp

\* C23: the reload that a 401 on a page other than /login brings about
\* starts the app on /login with an auth store that holds no token and is
\* not authenticated, localStorage holding no access_token; and an app on
\* /login that is not authenticated is not redirected anywhere: it leaves
\* /login only by a login that succeeds.
C23_RestsOnLogin ==
  [][/\ ev'.op = "reload" =>
          /\ reloadPending /\ ~reloadPending'
          /\ path' = LOGIN
          /\ ls' = NoTok
          /\ store' = [user |-> NoUser, token |-> NoTok,
                       isAuthenticated |-> FALSE]
     /\ (path = LOGIN /\ ~store.isAuthenticated /\ ev'.op # "loginOk") =>
          path' = LOGIN /\ ~store'.isAuthenticated]_vars

\* the app reloaded on /login by the redirect of a 401, its store created
\* anew and nothing in flight
C23_Witness ==
  /\ ev.op = "reload"
  /\ ~reloadPending
  /\ path = LOGIN
  /\ store = [user |-> NoUser, token |-> NoTok, isAuthenticated |-> FALSE]
  /\ calls = {}

\* a redirect that the interceptor asked for is followed by the app at rest
\* on /login, if the browser performs it
C23_RedirectCompletes ==
  reloadPending ~> (~reloadPending /\ path = LOGIN /\ ~store.isAuthenticated)

\* C24: in every reachable state the token of the auth store is the
\* access_token of localStorage, both absent or both the same.
C24_StoreTokenIsStored == store.token = ls

\* the same in the states in which no redirect to /login is under way
C24_StoredUnlessRedirecting == ~reloadPending => store.token = ls

\* a 401 has cleared localStorage and asked for the redirect, which has not
\* happened yet
C24_ClearedBeforeReload ==
  /\ reloadPending
  /\ ev.op \in RejectOps
  /\ ev.rej.status = 401
  /\ ls = NoTok
  /\ store.token # NoTok

\* C25: after any sequence of the auth store's setUser, setToken and logout,
\* isAuthenticated is true exactly when the store's token is not null.
C25_AuthenticatedIffToken == store.isAuthenticated <=> store.token # NoTok

\* the same after setToken and logout, whatever went before
C25_AfterTokenOperations ==
  ev.op \in {"init", "setToken", "logout"} =>
    (store.isAuthenticated <=> store.token # NoTok)

\* within the app, whose login calls setToken and then setUser with the user
\* of the response, the flag and the token agree, as do the token and the user
C25_InTheApp ==
  /\ store.isAuthenticated <=> store.token # NoTok
  /\ store.user # NoUser => store.token # NoTok

\* C26: on the Service Usage and Adoption Analytics pages the results on
\* display were produced by the query type of the view mode now selected.
C26_ResultsOfSelectedView ==
  (path \in {SERVICE, ADOPTION} /\ pg.results # Null) =>
    pg.results[1].qt = QueryType(path, pg.viewMode)

\* the same in the states reached without a view toggle during a search:
\* results are of the view selected when the search that is not pending any
\* more was started, and a toggle clears them
C26_ToggleClearsResults ==
  [][(path \in {SERVICE, ADOPTION} /\ ev'.op = "view"
      /\ pg'.viewMode # pg.viewMode) => pg'.results = Null]_vars

\* C27: on a single-query filter page an error message and a result set are
\* never both present.
C27_ErrorOrResults ==
  path \in {AUDIT, WEEKLY, SERVICE, ADOPTION, ANALYTICS} =>
    ~(pg.error # "" /\ pg.results # Null)
\* a second search of the page was rejected: its error is shown and the
\* results of the first are gone
C27_Witness ==
  /\ path \in {AUDIT, WEEKLY, SERVICE, ADOPTION, ANALYTICS}
  /\ ev.op = "reject"
  /\ pg.gen = 2
  /\ pg.error # ""
  /\ pg.results = Null
  /\ ~pg.loading
\* C28: the limit with which the Audit Trail, Unsigned Notes and Service
\* Usage pages issue a search is an integer from 1 to 10000, whatever was
\* typed into the Limit field.
C28_LimitInRange ==
  [][(path \in {AUDIT, UNSIGNED, SERVICE} /\ ev'.op = "search"
      /\ calls' # calls) => pg'.limit \in 1..10000]_vars

\* the same for the texts that parseInt reads as a number from 1 to 10000,
\* as 0 or as no number
C28_LimitOfDefaultOrTyped ==
  [][(path \in {AUDIT, UNSIGNED, SERVICE} /\ ev'.op = "search"
      /\ calls' # calls /\ pg'.limit # -5) => pg'.limit \in 1..10000]_vars

\* C29: in a mounted DataTable the page index selects a slice of the data
\* that is not empty: page * rowsPerPage is below the number of rows.
C29_PageHasRows ==
  (util.fn = "DataTable" /\ util.data # Null) =>
    /\ util.page >= 0
    /\ util.page * util.rowsPerPage < util.data[1]

\* a table on its third page of ten rows
C29_Witness ==
  /\ util.fn = "DataTable"
  /\ util.data # Null
  /\ util.rowsPerPage = 10
  /\ util.page = 2

\* C30: the minutes part of the text formatDuration returns for a whole
\* number of seconds, when it has one, is below 60.
C30_MinutesBelow60 ==
  (Applied("formatDuration") /\ util.ret[1].m # Null) => util.ret[1].m[1] < 60

\* the minutes part is never above 60, and below 60 when the seconds past
\* the hour (or, under an hour, the seconds) are fewer than 3570
C30_MinutesUpTo60 ==
  (Applied("formatDuration") /\ util.ret[1].m # Null) =>
    /\ util.ret[1].m[1] <= 60
    /\ util.seconds % 3600 < 3570 => util.ret[1].m[1] < 60
====
